---- MODULE Spec2Model ----
(***************************************************************************)
(* Incremental slice-by-slice volume input of libminc's volume_io:         *)
(*   free format  : src/volume_io/Volumes/input_free.c                     *)
(*   MGH format   : src/volume_io/Volumes/input_mgh.c                      *)
(*                                                                         *)
(* One input session is modelled: the caller's Volume, the                 *)
(* volume_input_struct, the file on disk, and the entry points of each     *)
(* format (initialize_*_input, input_more_*_file, delete_*_input).  A      *)
(* second session of the same process may be kept aside in peer; the       *)
(* caller then chooses before each call which of the two it calls.         *)
(*                                                                         *)
(* Conventions.  C arrays are functions over 0..n-1.  Sample values are    *)
(* integers.  Real arithmetic is exact: a quotient (v - t) / s with        *)
(* s = d / 255 is kept as the numerator (v - t) * 255 over the denominator *)
(* d, so that truncation and comparisons are computed without rounding.    *)
(* A real variable holds a record [n, d] standing for n / d with d > 0;    *)
(* d = 0 stands for a value no sample reaches: FLT_MAX or +infinity when   *)
(* n > 0, -FLT_MAX or -infinity when n < 0, not-a-number when n = 0.       *)
(* A read of uninitialised memory yields any value of a small set.         *)
(***************************************************************************)
EXTENDS Integers, Sequences, FiniteSets, TLC

VARIABLES
    input,      \* the file on disk: header fields and payload (read only)
    volume,     \* the caller's Volume structure
    vin,        \* the volume_input_struct of the session
    phase,      \* "new" | "open" | "failed" | "deleted"
    ret,        \* what the caller holds after the last input_more_* call
    obs,        \* what the last entry-point call did (observation only)
    peer        \* the other session of the process, if there is one

vars == <<input, volume, vin, phase, ret, obs, peer>>

----------------------------------------------------------------------------
(* Bounds of the model *)

MaxSlices == 2      \* slices along the outermost file axis: 0..MaxSlices
MaxSide   == 2      \* rows / samples per row of one slice: 1..MaxSide
MaxExtra  == 1      \* input_more_* calls allowed beyond MaxSlices + 1
MaxDeletes == 2     \* delete_* calls of one session

(* Program constants *)

NUM_BYTE_VALUES == 256
N_DIMENSIONS    == 3
FLT_MAX         == [n |-> 1, d |-> 0]
MGH_TYPE_UCHAR  == 0
MGH_TYPE_INT    == 1
MGH_TYPE_FLOAT  == 3
MGH_TYPE_SHORT  == 4

X == 0
Y == 1
Z == 2

Axes == 0 .. (N_DIMENSIONS - 1)

----------------------------------------------------------------------------
(* Arithmetic helpers *)

\* C conversion of the real a / b to int (truncation toward zero), b > 0
TruncDiv(a, b) == IF a >= 0 THEN a \div b ELSE -((-a) \div b)

Abs(a) == IF a < 0 THEN -a ELSE a

\* reals
Rat(n) == [n |-> n, d |-> 1]

NegRat(a) == [n |-> -a.n, d |-> a.d]

IsNaN(a) == a.n = 0 /\ a.d = 0

\* the C comparison a < b of two reals (false when either is not a number)
RatLess(a, b) ==
    IF IsNaN(a) \/ IsNaN(b) THEN FALSE
    ELSE IF a.d = 0 /\ b.d = 0 THEN a.n < b.n
    ELSE IF a.d = 0 THEN a.n < 0
    ELSE IF b.d = 0 THEN b.n > 0
    ELSE IF a.d = b.d THEN a.n < b.n
    ELSE a.n * b.d < b.n * a.d

\* the real n / d for integers n and d: a zero divisor gives an infinity or
\* not-a-number
Quot(n, d) ==
    IF d > 0 THEN [n |-> n, d |-> d]
    ELSE IF d < 0 THEN [n |-> -n, d |-> -d]
    ELSE [n |-> IF n > 0 THEN 1 ELSE IF n < 0 THEN -1 ELSE 0, d |-> 0]

----------------------------------------------------------------------------
(* The file on disk.                                                       *)
(*                                                                         *)
(* format       "free" | "mgh"                                             *)
(* bpv          free: the n_bytes_per_voxel token                          *)
(* version,type mgh: header version and type code                          *)
(* sizes        free: the three counts in file order (a first count <= 0   *)
(*              announces a list of slice files); mgh: hdr.sizes[0..3]     *)
(* seps         free: the three signed separations, in file order          *)
(* trans        free: the three translations                               *)
(* letters      free: the three axis letters, in file order                *)
(* nfiles       free: entries of the slice file list                       *)
(* byte_offset  free: offset of the payload in the volume file, counted    *)
(*              in samples                                                 *)
(* goodRAS, dircos   mgh: the flag and the three direction rows            *)
(* lines        free: the lines the header holds before it ends            *)
(* short_header mgh: the file ends before the 284th byte of the header     *)
(* pattern      which payload the file holds                               *)
(***************************************************************************)

MinMaxPair == <<3, 54>>     \* the two values of a two-valued payload
NegPair    == <<-1, 5>>     \* a signed payload with a negative sample
ConstValue == <<7>>         \* the value of a constant payload

\* the sample encoded at linear index k (0-based) of the payload
PayloadAt(inp, k) ==
    CASE inp.pattern = "ramp"   -> k
      [] inp.pattern = "const"  -> ConstValue[1]
      [] inp.pattern = "minmax" -> MinMaxPair[(k % 2) + 1]
      [] inp.pattern = "neg"    -> NegPair[(k % 2) + 1]

\* the bit pattern a sample is stored as, read as an unsigned number
Encode(type, v) ==
    CASE type = "UNSIGNED_BYTE"                     -> v % 256
      [] type \in {"UNSIGNED_SHORT", "SIGNED_SHORT"} -> v % 65536
      [] OTHER                                      -> v

Padding == <<200>>          \* what a volume file holds before its payload

\* what uninitialised memory may hold where the code reads it
Garbage == {-1, 2}

\* free format: the file sample type selected by n_bytes_per_voxel
FreeType(bpv) ==
    CASE bpv = 1 -> "UNSIGNED_BYTE"
      [] bpv = 2 -> "UNSIGNED_SHORT"
      [] OTHER   -> "NO_DATA_TYPE"

\* a variant that takes the type code 2 (MGH_TYPE_LONG) for 4-byte integers
MghTypeWithLong(code) ==
    CASE code = MGH_TYPE_UCHAR -> "UNSIGNED_BYTE"
      [] code \in {MGH_TYPE_INT, 2} -> "SIGNED_INT"
      [] code = MGH_TYPE_FLOAT -> "FLOAT"
      [] code = MGH_TYPE_SHORT -> "SIGNED_SHORT"
      [] OTHER                 -> "NO_DATA_TYPE"

\* MGH: the file sample type selected by the header's type code
MghType(code) ==
    CASE code = MGH_TYPE_UCHAR -> "UNSIGNED_BYTE"
      [] code = MGH_TYPE_INT   -> "SIGNED_INT"
      [] code = MGH_TYPE_FLOAT -> "FLOAT"
      [] code = MGH_TYPE_SHORT -> "SIGNED_SHORT"
      [] OTHER                 -> "NO_DATA_TYPE"

InputType(inp) ==
    IF inp.format = "free" THEN FreeType(inp.bpv) ELSE MghType(inp.type)

\* number of slices and samples per slice the file really holds
InputSlices(inp) ==
    IF inp.format = "free"
    THEN (IF inp.sizes[0] <= 0 THEN inp.nfiles ELSE inp.sizes[0])
    ELSE inp.sizes[2]

InputSliceLen(inp) ==
    IF inp.format = "free" THEN inp.sizes[1] * inp.sizes[2]
                           ELSE inp.sizes[0] * inp.sizes[1]

\* the stored sample at absolute position p of the (monolithic) data file;
\* the MGH position counts from the end of the 284-byte header
FileSample(inp, p) ==
    IF p < inp.byte_offset
    THEN Padding[1]
    ELSE Encode(InputType(inp), PayloadAt(inp, p - inp.byte_offset))

FileLen(inp) == inp.byte_offset + InputSlices(inp) * InputSliceLen(inp)

\* n samples read at position pos of the monolithic file
ReadAt(inp, pos, n) == [i \in 1..n |-> FileSample(inp, pos + i - 1)]

\* the n samples of the s-th slice file (per-slice mode), read at its offset
SliceFile(inp, s, n) ==
    [i \in 1..n |-> Encode(InputType(inp), PayloadAt(inp, s * n + i - 1))]

----------------------------------------------------------------------------
(* input_free.c: input_slice *)

\* what the file system may answer to one input_slice call
SliceOutcomes(v) ==
    IF v.one_file_per_slice
    THEN {"ok", "open_fail", "seek_fail", "read_fail", "close_fail"}
    ELSE {"ok", "read_fail"}

\* input_slice under outcome oc: the new volume_input_struct, the status,
\* and the number of files the call opened and left open (line 428 closes
\* the slice file only when the status is OK)
input_slice(v, inp, oc) ==
    IF v.slice_index < v.sizes_in_file[0]
    THEN LET n      == v.sizes_in_file[1] * v.sizes_in_file[2]
             canget == IF v.one_file_per_slice
                       THEN v.slice_index < InputSlices(inp)
                       ELSE /\ v.volume_file.open
                            /\ v.volume_file.pos + n <= FileLen(inp)
             readok == oc \in {"ok", "close_fail"} /\ canget
             data   == IF v.one_file_per_slice
                       THEN SliceFile(inp, v.slice_index, n)
                       ELSE ReadAt(inp, v.volume_file.pos, n)
             status == IF oc = "ok" /\ canget THEN "OK" ELSE "ERROR"
         IN  [vin |-> [v EXCEPT
                 !.buffer = IF readok THEN data ELSE @,
                 !.volume_file.pos =
                     IF readok /\ ~v.one_file_per_slice THEN @ + n ELSE @,
                 !.slice_index = @ + 1],
              status |-> status,
              leak |-> IF v.one_file_per_slice
                          /\ oc \in {"seek_fail", "read_fail"}
                       THEN 1 ELSE 0]
    ELSE [vin |-> v, status |-> "ERROR", leak |-> 0]

----------------------------------------------------------------------------
(* input_free.c: initialize_free_format_input *)

\* the switch on the axis letter; -1 is the default: branch
LetterAxis(ch) ==
    CASE ch \in {"x", "X"} -> X
      [] ch \in {"y", "Y"} -> Y
      [] ch \in {"z", "Z"} -> Z
      [] OTHER             -> -1

\* the volume's spatial axes after the "setting spatial axes to XYZ" fix
FixedSpatialAxes(vol) ==
    IF \E c \in Axes : vol.spatial_axes[c] < 0
    THEN [c \in Axes |-> c]
    ELSE vol.spatial_axes

\* the lines of a complete header: n_bytes_per_voxel, the translations, one
\* line per axis, the name of the volume file
HeaderLines == 6

\* what the file system may answer to the open and the close of the header
\* file
FreeHeaderOutcomes == {"ok", "open_fail", "close_fail"}

\* lines 187-226, the status once the slice files or the volume file are
\* named, as if the statement of line 216 were reached whatever the status
FreeNamedUnguarded(inp, listed, perslice) ==
    perslice \/ inp.lines >= HeaderLines

\* lines 187-226: the status (OK or not) once the slice files or the volume
\* file are named; listed is the status before, perslice tells that the
\* first count announces a list of slice files
FreeNamed(inp, listed, perslice) ==
    listed /\ (perslice \/ inp.lines >= HeaderLines)

\* lines 52-226: the header is read; hio is the answer of the file system.
\* The result holds the volume_input_struct, the status once line 226 is
\* passed, the local desired_data_type ("UNSET" where no value was assigned
\* to it) and what became of the header FILE: "none" when it was not opened,
\* "open" when the call returns without closing it, "closed" otherwise
FreeHeader(inp, vol, v, hio) ==
    LET opened  == hio # "open_fail"
        began   == opened /\ inp.lines >= 2          \* the status at line 77
        type    == FreeType(inp.bpv)
        typeok  == began /\ inp.bpv \in {1, 2}
        sa      == FixedSpatialAxes(vol)
        bad     == {a \in Axes : \/ inp.lines < a + 3
                                 \/ LetterAxis(inp.letters[a]) = -1}
        \* the loop runs only when the type was accepted, and stops at the
        \* first line that is absent or whose letter is no axis
        ran     == IF typeok THEN {a \in Axes : \A b \in bad : a <= b} ELSE {}
        done    == {a \in ran : a \notin bad}
        aif     == [a \in Axes |->
                       IF a \in done THEN sa[LetterAxis(inp.letters[a])]
                                     ELSE v.axis_index_from_file[a]]
        sif0    == [a \in 0..3 |->
                       IF a \in ran /\ inp.lines >= a + 3
                       THEN inp.sizes[a] ELSE v.sizes_in_file[a]]
        axesok  == typeok /\ bad = {}
        distinct == aif[X] # aif[Y] /\ aif[X] # aif[Z] /\ aif[Y] # aif[Z]
        listed  == axesok /\ distinct                \* the status at line 187
        perslice == sif0[0] <= 0
        named   == FreeNamed(inp, listed, perslice)  \* the status at line 225
        status  == IF named /\ hio = "ok" THEN "OK" ELSE "ERROR"
        sif     == IF listed /\ perslice
                   THEN [sif0 EXCEPT ![0] = inp.nfiles] ELSE sif0
    IN  [status |-> status,
         vin    |-> [v EXCEPT
                       !.file_data_type = IF typeok THEN type ELSE @,
                       !.axis_index_from_file = aif,
                       !.sizes_in_file = sif,
                       !.one_file_per_slice = IF listed THEN perslice ELSE @],
         desired |-> IF ~began THEN "UNSET"
                     ELSE IF vol.data_type = "NO_DATA_TYPE"
                     THEN (IF typeok THEN type ELSE v.file_data_type)
                     ELSE vol.data_type,
         hdr_file |-> IF ~opened THEN "none"
                      ELSE IF named THEN "closed" ELSE "open"]

\* lines 234-243: one turn of the loop that records sizes, separations and
\* the flip of the translation; st holds the locals sizes[],
\* volume_separations[] and trans[]
FlipStep(st, v, fs, axis) ==
    LET a     == v.axis_index_from_file[axis]
        sizes == [st.sizes EXCEPT ![a] = v.sizes_in_file[axis]]
        seps  == [st.seps EXCEPT ![a] = fs[axis]]
    IN  [sizes |-> sizes,
         seps  |-> seps,
         trans |-> IF seps[axis] < 0
                   THEN [st.trans EXCEPT
                            ![axis] = @ + (-seps[axis]) * (sizes[axis] - 1)]
                   ELSE st.trans]

\* lines 230-244: the whole loop; g is what the uninitialised locals hold
FreeGeometry(inp, v, g) ==
    LET st0 == [sizes |-> [a \in Axes |-> g],
                seps  |-> [a \in Axes |-> g],
                trans |-> inp.trans]
    IN  FlipStep(FlipStep(FlipStep(st0, v, inp.seps, 0), v, inp.seps, 1),
                 v, inp.seps, 2)

\* lines 301-308: the scan of one slice of the pre-pass; vals are the values
\* read from short_slice_buffer, acc the running min_value / max_value
RECURSIVE FreeScan(_, _, _, _)
FreeScan(vals, i, slice, acc) ==
    IF i > Len(vals) THEN acc
    ELSE LET value == vals[i] % 65536      \* unsigned short value
             first == slice = 0 /\ i = 1
         IN  FreeScan(vals, i + 1, slice,
                 [min |-> IF first \/ value < acc.min THEN value ELSE acc.min,
                  max |-> IF first \/ value > acc.max THEN value ELSE acc.max,
                  ok  |-> acc.ok])

\* lines 297-310: the pre-pass loop from slice on; mask[s] is the outcome of
\* the s-th input_slice call (its status is discarded: ok only records
\* whether every read succeeded), g what is read where no short buffer was
\* allocated
RECURSIVE FreePrePass(_, _, _, _, _, _)
FreePreTurn(r, inp, slice, mask, g, acc) ==
    FreePrePass(r.vin, inp, slice + 1, mask, g,
        FreeScan(IF r.vin.file_data_type = "UNSIGNED_SHORT"
                 THEN r.vin.buffer
                 ELSE [i \in 1 .. (r.vin.sizes_in_file[1]
                                     * r.vin.sizes_in_file[2]) |-> g],
                 1, slice, [acc EXCEPT !.ok = @ /\ r.status = "OK"]))

FreePrePass(v, inp, slice, mask, g, acc) ==
    IF slice >= v.sizes_in_file[0]
    THEN [vin |-> v, min |-> acc.min, max |-> acc.max, ok |-> acc.ok]
    ELSE FreePreTurn(input_slice(v, inp, mask[slice]), inp, slice, mask, g,
                     acc)

\* the volume collaborator: set_volume_voxel_range / set_volume_real_range
\* store the pair, get_volume_voxel_range returns it
set_volume_voxel_range(vol, lo, hi) ==
    [vol EXCEPT !.voxel_min = lo, !.voxel_max = hi]

set_volume_real_range(vol, lo, hi) ==
    [vol EXCEPT !.real_min = lo, !.real_max = hi, !.real_set = TRUE]

\* the observation record of a call that decodes nothing: ncalls counts the
\* input_more_* calls, status is what the slice read returned, slice the
\* slice read, scaling whether the samples were rescaled with translation
\* and scale (scale in units of 1/255), divzero whether a division by a zero
\* scale was evaluated, written the (coordinates, value) pairs handed to the
\* voxel setter, oob whether a coordinate lay outside the volume; pre_quant
\* tells that the open call ran the pre-pass, pre_ok that every read of it
\* succeeded, pre_min and pre_max are the extrema it found; decoded is the
\* sequence of sample values the call took from the slice buffer, clean
\* tells that no input_more_* call of the session failed so far, leaked
\* counts the slice files the call opened and did not close; ndeletes
\* counts the delete_* calls, bad_close tells that the last one closed a
\* file that was not open; hdr_file tells what became of the file the open
\* call opened to read the header ("session" when the session keeps it as
\* its volume file), hdr the header as the open call parsed it, populated
\* the voxels (coordinates and index of the fourth dimension) that the
\* input_more_* calls of the session wrote; pre_file tells what the
\* pre-pass read from ("slices" for slice files, else "open", "unpositioned"
\* or "unopened" for the volume file), pre_reads how many slice reads it
\* made
NoDecode(o) ==
    [ncalls |-> o.ncalls, status |-> "NONE", slice |-> -1, scaling |-> FALSE,
     translation |-> Rat(0), scale |-> 0, divzero |-> FALSE, written |-> {},
     oob |-> FALSE, alloc_failed |-> FALSE,
     pre_quant |-> o.pre_quant, pre_ok |-> o.pre_ok,
     pre_min |-> o.pre_min, pre_max |-> o.pre_max,
     pre_file |-> o.pre_file, pre_reads |-> o.pre_reads,
     decoded |-> <<>>, clean |-> o.clean, leaked |-> 0,
     ndeletes |-> o.ndeletes, bad_close |-> FALSE,
     hdr_file |-> o.hdr_file, hdr |-> o.hdr, populated |-> o.populated]

\* whether the open call runs the pre-pass, and on a monolithic file
FreeQuant(s) == s.status = "OK" /\ s.desired # s.vin.file_data_type

FreeMono(s) == s.status = "OK" /\ ~s.vin.one_file_per_slice

\* line 253: the type handed to set_volume_type; desired_data_type holds
\* what was on the stack where lines 93-96 were not reached
FreeDesired(h, g) ==
    IF h.desired # "UNSET" THEN h.desired
    ELSE IF g < 0 THEN "NO_DATA_TYPE" ELSE "UNSIGNED_SHORT"

\* lines 164-171 and 230-275: the geometry is recorded in the volume and
\* the slice buffer allocated (not initialised); h is the result of
\* FreeHeader, g what uninitialised memory holds
FreeSetup(inp, vol, h, g) ==
    [status  |-> h.status,
     desired |-> FreeDesired(h, g),
     hdr_file |-> h.hdr_file,
     hdr |-> [ok |-> h.status = "OK"],
     vol |-> [vol EXCEPT
                !.spatial_axes = [c \in Axes |-> c],
                !.separations = IF h.status = "OK"
                                THEN FreeGeometry(inp, h.vin, g).seps ELSE @,
                !.trans = IF h.status = "OK"
                          THEN FreeGeometry(inp, h.vin, g).trans ELSE @,
                !.data_type = FreeDesired(h, g),
                !.sizes = IF h.status = "OK"
                          THEN FreeGeometry(inp, h.vin, g).sizes
                          ELSE [a \in Axes |-> g]],
     vin |-> IF h.status = "OK"
             THEN [h.vin EXCEPT
                     !.buffer = [i \in 1 .. (h.vin.sizes_in_file[1] *
                                             h.vin.sizes_in_file[2]) |-> g],
                     !.buffer_live = TRUE]
             ELSE h.vin,
     pre_quant |-> FALSE, pre_ok |-> TRUE,
     pre_min |-> Rat(0), pre_max |-> Rat(0),
     pre_file |-> "none", pre_reads |-> 0]

\* lines 285-289 and 321-326: open_file may fail ("open_fail"); then
\* set_file_position is applied to file, the header's
\* FILE closed at line 226, not to volume_input->volume_file.  The call
\* may return an error, may return OK and leave the volume file where it
\* is, or, where the stale pointer designates the FILE just opened, may
\* position the volume file
SeekOutcomes == {"open_fail", "error", "stale", "alias"}

\* where the volume file stands after it was opened and the position set
SeekPos(inp, seek) == IF seek = "alias" THEN inp.byte_offset ELSE 0

\* lines 281-316: the pre-pass; seek1 is the outcome of line 289.  The loop
\* runs whatever the status is.
FreePreDone(s, seek1, pp) ==
    [status  |-> IF FreeMono(s) /\ seek1 \in {"open_fail", "error"}
                 THEN "ERROR" ELSE "OK",
     desired |-> s.desired,
     hdr_file |-> s.hdr_file,
     hdr |-> s.hdr,
     vol |-> set_volume_voxel_range(s.vol, Rat(pp.min), Rat(pp.max)),
     vin |-> IF FreeMono(s) /\ seek1 \notin {"open_fail", "error"}
             THEN [pp.vin EXCEPT !.volume_file.open = FALSE]
             ELSE pp.vin,
     pre_quant |-> TRUE, pre_ok |-> pp.ok,
     pre_min |-> Rat(pp.min), pre_max |-> Rat(pp.max),
     pre_file |-> IF ~FreeMono(s) THEN "slices"
                  ELSE IF seek1 = "open_fail" THEN "unopened"
                  ELSE IF seek1 = "error" THEN "unpositioned" ELSE "open",
     pre_reads |-> pp.vin.slice_index]

FreePre(inp, s, seek1, mask, g) ==
    IF ~FreeQuant(s) THEN s
    ELSE FreePreDone(s, seek1,
             FreePrePass(IF FreeMono(s)
                         THEN [s.vin EXCEPT
                                 !.volume_file =
                                     [open |-> seek1 # "open_fail",
                                      pos |-> SeekPos(inp, seek1)],
                                 !.slice_index = 0]
                         ELSE [s.vin EXCEPT !.slice_index = 0],
                         inp, 0, mask, g,
                         [min |-> 0, max |-> 0, ok |-> TRUE]))

\* a variant that leaves the cursor where the pre-pass left it
FreeReopenKeepsCursor(inp, s, seek2) ==
    [s EXCEPT
       !.status = IF FreeMono(s) /\ seek2 \in {"open_fail", "error"}
                  THEN "ERROR" ELSE @,
       !.vin = IF FreeMono(s)
               THEN [s.vin EXCEPT !.volume_file =
                        [open |-> seek2 # "open_fail",
                         pos |-> SeekPos(inp, seek2)]]
               ELSE s.vin]

\* lines 318-331: the volume file is opened for the decode; seek2 is the
\* outcome of line 326
FreeReopen(inp, s, seek2) ==
    [s EXCEPT
       !.status = IF FreeMono(s) /\ seek2 \in {"open_fail", "error"}
                  THEN "ERROR" ELSE @,
       !.vin = [(IF FreeMono(s)
                 THEN [s.vin EXCEPT !.volume_file =
                          [open |-> seek2 # "open_fail",
                         pos |-> SeekPos(inp, seek2)]]
                 ELSE s.vin) EXCEPT !.slice_index = 0]]

FreeOpen(inp, vol, v, hio, g, seek1, seek2, mask) ==
    FreeReopen(inp,
               FreePre(inp,
                       FreeSetup(inp, vol, FreeHeader(inp, vol, v, hio), g),
                       seek1, mask, g),
               seek2)

\* the outcomes of the input_slice calls of the pre-pass, one per slice
FreeMasks(h) ==
    IF FreeQuant(h)
    THEN [0 .. (h.vin.sizes_in_file[0] - 1) -> {"ok", "read_fail"}]
    ELSE {<<>>}

\* the state after an open call that returned r.status
OpenReturns(r) ==
    /\ vin' = r.vin
    /\ volume' = r.vol
    /\ phase' = IF r.status = "OK" THEN "open" ELSE "failed"
    /\ obs' = [NoDecode(obs) EXCEPT !.pre_quant = r.pre_quant,
                  !.pre_ok = r.pre_ok,
                  !.pre_min = r.pre_min, !.pre_max = r.pre_max,
                  !.pre_file = r.pre_file, !.pre_reads = r.pre_reads,
                  !.hdr_file = r.hdr_file, !.hdr = r.hdr]
    /\ UNCHANGED <<input, ret, peer>>

initialize_free_format_input ==
    /\ phase = "new"
    /\ input.format = "free"
    /\ \E hio \in FreeHeaderOutcomes, g \in Garbage :
        \E seek1 \in IF FreeQuant(FreeHeader(input, volume, vin, hio))
                        /\ FreeMono(FreeHeader(input, volume, vin, hio))
                     THEN SeekOutcomes ELSE {"stale"},
           seek2 \in IF FreeMono(FreeHeader(input, volume, vin, hio))
                     THEN SeekOutcomes ELSE {"stale"},
           mask \in FreeMasks(FreeHeader(input, volume, vin, hio)) :
          OpenReturns(FreeOpen(input, volume, vin, hio, g, seek1, seek2,
                               mask))

----------------------------------------------------------------------------
(* The voxel storage of the volume collaborator *)

Coords(sizes) ==
    {[a \in Axes |-> CASE a = 0 -> x [] a = 1 -> y [] a = 2 -> z] :
        x \in 0 .. (sizes[0] - 1),
        y \in 0 .. (sizes[1] - 1),
        z \in 0 .. (sizes[2] - 1)}

\* the C conversion of a value to the volume's storage type
StoreCast(type, value) ==
    CASE type = "UNSIGNED_BYTE"  -> value % 256
      [] type = "UNSIGNED_SHORT" -> value % 65536
      [] type = "SIGNED_SHORT"   -> ((value + 32768) % 65536) - 32768
      [] OTHER                   -> value

\* alloc_volume_data: storage for the volume's sizes, not initialised.  data
\* holds the voxels whose index of the fourth dimension is 0; no statement
\* of either reader addresses another one.
alloc_volume_data(vol, g) ==
    [vol EXCEPT !.alloced = TRUE,
                !.data = [c \in Coords(vol.sizes) |->
                             StoreCast(vol.data_type, g)]]

\* the coordinates the scatter loops address for row i and inner index j of
\* slice s: indices[axis_index_from_file[..]] are assigned outer, middle,
\* inner, so the inner assignment wins; g is an entry never assigned
ScatterIndex(aif, outer, mid, inner, s, i, j, g) ==
    [c \in Axes |->
        IF c = aif[inner] THEN j
        ELSE IF c = aif[mid] THEN i
        ELSE IF c = aif[outer] THEN s
        ELSE g]

\* the writes of one slice: w is a set of [i, j, at, val, int] where val is
\* the value handed to the voxel setter and int its conversion to an
\* integer; a voxel addressed twice keeps the value of the last write in
\* loop order
LastWrite(w, c) ==
    CHOOSE x \in w :
        /\ x.at = c
        /\ \A y \in w : y.at = c => (y.i < x.i \/ (y.i = x.i /\ y.j <= x.j))

Scatter(vol, w) ==
    [vol EXCEPT !.data =
        [c \in DOMAIN vol.data |->
            IF \E x \in w : x.at = c
            THEN StoreCast(vol.data_type, LastWrite(w, c).int)
            ELSE vol.data[c]]]

\* the values the volume stores, as a set
StoredValues(vol) == {vol.data[c] : c \in DOMAIN vol.data}

SetMin(S) == CHOOSE m \in S : \A x \in S : m <= x
SetMax(S) == CHOOSE m \in S : \A x \in S : m >= x

\* the quotient a / b of two integers truncated toward zero, b # 0
TruncQuot(a, b) ==
    IF b > 0 THEN TruncDiv(a, b) ELSE TruncDiv(-a, -b)

\* what the conversion to an integer of a quotient by a zero scale (an
\* infinity or a not-a-number) may give
DivZeroInt == {0, -2147483647, 2147483647}

----------------------------------------------------------------------------
(* input_free.c: input_more_free_format_file *)

MaxCalls == MaxSlices + 1 + MaxExtra

\* lines 500-512 and 529-536: the value handed to SET_VOXEL_3D for the raw
\* sample raw; lo, hi are original_min_voxel, original_max_voxel and dz the
\* result of the conversion to int when the scale is zero
FreeValue(type, scaling, raw, lo, hi, dz) ==
    IF ~scaling THEN raw
    ELSE LET value == IF hi = lo THEN dz
                      ELSE TruncQuot((raw - lo) * (NUM_BYTE_VALUES - 1), hi - lo)
         IN  IF type = "UNSIGNED_BYTE"
             THEN (IF value < 0 THEN 0 ELSE IF value > 255 THEN 255 ELSE value)
             ELSE value

\* one write of the integer value at the coordinates at
FreeWrite(i, j, at, value) ==
    [i |-> i, j |-> j, at |-> at, frame |-> 0, val |-> Rat(value),
     int |-> value]

\* lines 485-549: the writes of the slice held in the buffer
FreeWrites(v, scaling, lo, hi, dz, g) ==
    {FreeWrite(i, j,
               ScatterIndex(v.axis_index_from_file, 0, 1, 2,
                            v.slice_index - 1, i, j, g),
               FreeValue(v.file_data_type, scaling,
                         v.buffer[i * v.sizes_in_file[2] + j + 1], lo, hi, dz)) :
        i \in 0 .. (v.sizes_in_file[1] - 1),
        j \in 0 .. (v.sizes_in_file[2] - 1)}

\* lines 557-587: the final scan and the ranges it sets; g is what a read
\* outside the voxel storage gives, lo and hi the call's
\* original_min_voxel and original_max_voxel
FreeFinishRanges(vol, v, lo, hi, mn, mx) ==
    IF vol.data_type # v.file_data_type
    THEN set_volume_real_range(
             set_volume_voxel_range(vol, Rat(mn), Rat(mx)), Rat(lo), Rat(hi))
    ELSE set_volume_voxel_range(vol, Rat(mn), Rat(mx))

FreeFinishScan(vol, v, lo, hi, g, vals) ==
    FreeFinishRanges(vol, v, lo, hi,
                     IF vals = {} THEN g ELSE SetMin(vals),
                     IF vals = {} THEN g ELSE SetMax(vals))

FreeFinish(vol, v, lo, hi, g) ==
    FreeFinishScan(vol, v, lo, hi, g, StoredValues(vol))

FreeActive(v) == v.slice_index < v.sizes_in_file[0]

\* lines 474-483: scaling_flag
FreeScaling(vol, v) == FreeActive(v) /\ vol.data_type # v.file_data_type

\* lines 467-483: the volume is allocated, the slice read, and the locals
\* original_min_voxel / original_max_voxel (lo, hi) set when scaling; g is
\* what they hold otherwise, and what the new voxel storage holds
FreeRead(inp, vol, v, oc, g) ==
    [vol |-> IF FreeActive(v) /\ ~vol.alloced
             THEN alloc_volume_data(vol, g) ELSE vol,
     r   |-> IF FreeActive(v) THEN input_slice(v, inp, oc)
             ELSE [vin |-> v, status |-> "NONE"],
     scaling |-> FreeScaling(vol, v),
     lo  |-> IF FreeScaling(vol, v) THEN vol.voxel_min.n ELSE g,
     hi  |-> IF FreeScaling(vol, v) THEN vol.voxel_max.n ELSE g,
     w   |-> {},
     dec |-> <<>>,
     leaked |-> IF FreeActive(v) THEN input_slice(v, inp, oc).leak ELSE 0]

\* lines 485-549: the slice is scattered when it was read
FreeScatterW(a, w) ==
    [a EXCEPT !.w = w, !.vol = Scatter(@, w), !.dec = a.r.vin.buffer]

FreeScatter(a, dz, g) ==
    IF a.r.status # "OK" THEN a
    ELSE FreeScatterW(a, FreeWrites(a.r.vin, a.scaling, a.lo, a.hi, dz, g))

\* lines 552-589: the fraction (num / den), the final scan and the returned
\* flag; set tells that *fraction_done was written
FreeTotal(a) == a.vol.sizes[a.r.vin.axis_index_from_file[0]]

\* a variant that commits the final ranges at every call
FreeReturnCommitsRange(a, g) ==
    [vol  |-> FreeFinish(a.vol, a.r.vin, a.lo, a.hi, g),
     more |-> a.r.vin.slice_index # FreeTotal(a),
     set  |-> TRUE,
     num  |-> a.r.vin.slice_index,
     den  |-> FreeTotal(a)]

FreeReturn(a, g) ==
    [vol  |-> IF a.r.vin.slice_index = FreeTotal(a)
              THEN FreeFinish(a.vol, a.r.vin, a.lo, a.hi, g) ELSE a.vol,
     more |-> a.r.vin.slice_index # FreeTotal(a),
     set  |-> TRUE,
     num  |-> a.r.vin.slice_index,
     den  |-> FreeTotal(a)]

\* the state after an input_more_* call: a is the call once the slice is
\* scattered, b the same once the fraction and the flag are computed
MoreReturns(a, b) ==
    /\ vin' = a.r.vin
    /\ volume' = b.vol
    /\ ret' = IF b.set
              THEN [more |-> b.more, set |-> TRUE, num |-> b.num, den |-> b.den]
              ELSE [ret EXCEPT !.more = b.more]
    /\ obs' = [NoDecode(obs) EXCEPT
                 !.ncalls = @ + 1,
                 !.status = a.r.status,
                 !.slice = IF a.r.status = "NONE" THEN -1 ELSE vin.slice_index,
                 !.scaling = a.scaling,
                 !.translation = IF a.scaling THEN Rat(a.lo) ELSE Rat(0),
                 !.scale = IF a.scaling THEN a.hi - a.lo ELSE 0,
                 !.divzero = a.scaling /\ a.hi = a.lo /\ a.w # {},
                 !.written = {[at |-> x.at, val |-> x.val] : x \in a.w},
                 !.oob = \E x \in a.w : x.at \notin DOMAIN a.vol.data,
                 !.alloc_failed = ~b.set,
                 !.decoded = a.dec,
                 !.populated = @ \cup {[at |-> x.at, frame |-> x.frame] :
                                          x \in a.w},
                 !.leaked = a.leaked,
                 !.clean = @ /\ b.set /\ a.r.status # "ERROR"]
    /\ UNCHANGED <<input, phase, peer>>

FreeMore(a, g) == MoreReturns(a, FreeReturn(a, g))

input_more_free_format_file ==
    /\ phase = "open"
    /\ input.format = "free"
    /\ obs.ncalls < MaxCalls
    /\ \E oc \in IF FreeActive(vin) THEN SliceOutcomes(vin) ELSE {"none"},
          g  \in IF FreeScaling(volume, vin) /\ volume.alloced
                 THEN {0} ELSE Garbage,
          dz \in IF FreeScaling(volume, vin)
                    /\ volume.voxel_min = volume.voxel_max
                 THEN DivZeroInt ELSE {0} :
        FreeMore(FreeScatter(FreeRead(input, volume, vin, oc, g), dz, g), g)

----------------------------------------------------------------------------
(* input_mgh.c: input_next_slice *)

\* input_next_slice under outcome oc: the slice is read at the position of
\* the open file; the cursor moves only when the read returned a whole slice
MghNextSliceRead(v, inp, n, ok) ==
    [vin |-> IF ok
             THEN [v EXCEPT !.buffer = ReadAt(inp, v.volume_file.pos, n),
                            !.volume_file.pos = @ + n,
                            !.slice_index = @ + 1]
             ELSE v,
     status |-> IF ok THEN "OK" ELSE "ERROR"]

\* a variant in which the sessions of a process read through one file
\* handle kept in a static variable: the slice comes from the file of the
\* session opened last
input_next_slice_shared_handle(v, inp, oc) ==
    IF v.slice_index >= v.sizes_in_file[2]
    THEN [vin |-> v, status |-> "ERROR"]
    ELSE MghNextSliceRead(v, IF peer.phase \in {"open", "deleted"}
                             THEN peer.input ELSE inp,
                          v.sizes_in_file[0] * v.sizes_in_file[1],
                          oc = "ok")

input_next_slice(v, inp, oc) ==
    IF v.slice_index >= v.sizes_in_file[2]
    THEN [vin |-> v, status |-> "ERROR"]
    ELSE MghNextSliceRead(v, inp, v.sizes_in_file[0] * v.sizes_in_file[1],
             /\ oc = "ok"
             /\ v.volume_file.pos + v.sizes_in_file[0] * v.sizes_in_file[1]
                    <= FileLen(inp))

----------------------------------------------------------------------------
(* input_mgh.c: mgh_header_from_file *)

\* a variant that clears the three direction rows only and leaves the
\* centre row as it was read
DefaultTurnKeepsCentre(h, i) ==
    [spacing |-> [h.spacing EXCEPT ![i] = 1],
     dircos  |-> [[j \in 0..3 |->
                      IF j < N_DIMENSIONS THEN [h.dircos[j] EXCEPT ![i] = 0]
                                          ELSE h.dircos[j]]
                     EXCEPT ![0][0] = -1, ![1][2] = -1, ![2][1] = 1]]

\* lines 310-325: one turn of the loop that installs the defaults
DefaultTurn(h, i) ==
    [spacing |-> [h.spacing EXCEPT ![i] = 1],
     dircos  |-> [[j \in 0..3 |-> [h.dircos[j] EXCEPT ![i] = 0]]
                     EXCEPT ![0][0] = -1, ![1][2] = -1, ![2][1] = 1]]

\* lines 260-327: the header once read; ok is the returned flag
mgh_header_from_file(inp) ==
    IF inp.short_header \/ inp.version # 1
    THEN [ok |-> FALSE, spacing |-> inp.spacing, dircos |-> inp.dircos]
    ELSE IF inp.goodRAS
    THEN [ok |-> TRUE, spacing |-> inp.spacing, dircos |-> inp.dircos]
    ELSE [ok |-> TRUE,
          spacing |-> DefaultTurn(DefaultTurn(DefaultTurn(inp, 0), 1), 2).spacing,
          dircos  |-> DefaultTurn(DefaultTurn(DefaultTurn(inp, 0), 1), 2).dircos]

\* what the file system may answer to the open of the file
MghHeaderOutcomes == {"ok", "open_fail"}

\* no header was read
NoHeader ==
    [ok |-> FALSE, spacing |-> [i \in Axes |-> 0],
     dircos |-> [j \in 0..3 |-> [i \in Axes |-> 0]]]

\* lines 423-433: the file is opened and the header read from it
MghHeader(inp, hio) ==
    [opened |-> hio # "open_fail",
     hdr |-> IF hio # "open_fail" THEN mgh_header_from_file(inp)
                                 ELSE NoHeader]

----------------------------------------------------------------------------
(* input_mgh.c: mgh_scan_for_voxel_range *)

\* lines 354-383 and 677-698: the value of a stored sample; ntohs and ntohl
\* return unsigned numbers, so the stored pattern is the value
MghSample(type, bits) ==
    CASE type = "UNSIGNED_BYTE" -> bits
      [] type = "SIGNED_SHORT"  -> bits
      [] type = "SIGNED_INT"    -> bits
      [] type = "FLOAT"         -> bits

\* the running minimum old after "if (value < min) min = value" was applied
\* to every value of S, and the running maximum likewise; below is the set
\* of values that replace old
RatLeast(old, below) ==
    IF below = {} THEN old
    ELSE CHOOSE m \in below : \A x \in below : ~RatLess(x, m)

RatMost(old, above) ==
    IF above = {} THEN old
    ELSE CHOOSE m \in above : \A x \in above : ~RatLess(m, x)

RatMin(old, S) == RatLeast(old, {x \in S : RatLess(x, old)})
RatMax(old, S) == RatMost(old, {x \in S : RatLess(old, x)})

\* lines 352-389: the scan of the buffer; acc is min_value / max_value
MghScanSlice(r, acc) ==
    [min |-> RatMin(acc.min,
                 {Rat(MghSample(r.vin.file_data_type, r.vin.buffer[i])) :
                      i \in 1 .. (r.vin.sizes_in_file[0]
                                     * r.vin.sizes_in_file[1])}),
     max |-> RatMax(acc.max,
                 {Rat(MghSample(r.vin.file_data_type, r.vin.buffer[i])) :
                      i \in 1 .. (r.vin.sizes_in_file[0]
                                     * r.vin.sizes_in_file[1])}),
     ok  |-> acc.ok /\ r.status = "OK"]

\* lines 348-395: the loop from slice on (the status of input_next_slice is
\* discarded: ok only records whether every read succeeded), then the
\* cursor and the file position are reset
RECURSIVE MghScanFrom(_, _, _, _, _)
MghScanTurn(r, inp, slice, mask, acc) ==
    MghScanFrom(r.vin, inp, slice + 1, mask, MghScanSlice(r, acc))

MghScanFrom(v, inp, slice, mask, acc) ==
    IF slice >= v.sizes_in_file[2]
    THEN [vin |-> [v EXCEPT !.slice_index = 0, !.volume_file.pos = 0],
          min |-> acc.min, max |-> acc.max, ok |-> acc.ok]
    ELSE MghScanTurn(input_next_slice(v, inp, mask[slice]), inp, slice,
                     mask, acc)

mgh_scan_for_voxel_range(v, inp, mask) ==
    MghScanFrom(v, inp, 0, mask,
                [min |-> FLT_MAX, max |-> NegRat(FLT_MAX), ok |-> TRUE])

----------------------------------------------------------------------------
(* input_mgh.c: initialize_mgh_format_input *)

\* lines 509-522: the spatial axis of a direction row
MghAxis(row) ==
    IF Abs(row[Z]) > Abs(row[X]) /\ Abs(row[Z]) > Abs(row[Y]) THEN Z
    ELSE IF Abs(row[Y]) > Abs(row[X]) /\ Abs(row[Y]) > Abs(row[Z]) THEN Y
    ELSE X

\* lines 537-543: one turn of the loop that fills the local sizes[]
MghSizeTurn(sizes, sa, aif, sif, axis) ==
    [sizes EXCEPT ![aif[sa[axis]]] = sif[sa[axis]]]

\* the whole loop; g is what the uninitialised sizes[] holds
MghSizes(sa, aif, sif, g) ==
    MghSizeTurn(MghSizeTurn(MghSizeTurn([c \in Axes |-> g],
                                        sa, aif, sif, 0),
                            sa, aif, sif, 1),
                sa, aif, sif, 2)

MghAxes(h) == [a \in Axes |-> MghAxis(h.dircos[a])]

MghDesired(inp, vol) ==
    IF vol.data_type = "NO_DATA_TYPE" THEN MghType(inp.type)
                                      ELSE vol.data_type

\* lines 423-584: up to the allocation of the slice buffer; h is the result
\* of MghHeader, g what uninitialised memory holds.  The steps and starts of the volume
\* come from convert_transform_to_starts_and_steps and are left out.
MghSetup(inp, vol, v, h, g) ==
    IF ~h.hdr.ok \/ MghType(inp.type) = "NO_DATA_TYPE"
    THEN [status |-> "ERROR", desired |-> vol.data_type, vol |-> vol,
          vin |-> v,
          hdr_file |-> IF h.opened THEN "closed" ELSE "none",
          hdr |-> h.hdr,
          pre_quant |-> FALSE, pre_ok |-> TRUE,
          pre_min |-> Rat(0), pre_max |-> Rat(0),
     pre_file |-> "none", pre_reads |-> 0]
    ELSE [status |-> "OK",
          desired |-> MghDesired(inp, vol),
          vol |-> [vol EXCEPT
                     !.spatial_axes = FixedSpatialAxes(vol),
                     !.data_type = MghDesired(inp, vol),
                     !.sizes = MghSizes(FixedSpatialAxes(vol), MghAxes(h.hdr),
                                        inp.sizes, g),
                     !.frames = inp.sizes[3]],
          vin |-> [v EXCEPT
                     !.file_data_type = MghType(inp.type),
                     !.sizes_in_file = inp.sizes,
                     !.axis_index_from_file = MghAxes(h.hdr),
                     !.min_value = FLT_MAX,
                     !.max_value = NegRat(FLT_MAX),
                     !.buffer = [i \in 1 .. (inp.sizes[0] * inp.sizes[1]) |->
                                    Encode(MghType(inp.type), g)],
                     !.buffer_live = TRUE,
                     !.volume_file = [open |-> TRUE, pos |-> 0],
                     !.slice_index = 0],
          hdr_file |-> "session",
          hdr |-> h.hdr,
          pre_quant |-> FALSE, pre_ok |-> TRUE,
          pre_min |-> Rat(0), pre_max |-> Rat(0),
     pre_file |-> "none", pre_reads |-> 0]

MghQuant(s) == s.status = "OK" /\ s.vol.data_type # s.vin.file_data_type

\* lines 590-596: the pre-pass and the voxel range it sets
MghPreDone(s, pp) ==
    [s EXCEPT !.vol = set_volume_voxel_range(@, pp.min, pp.max),
              !.vin = pp.vin,
              !.pre_quant = TRUE, !.pre_ok = pp.ok,
              !.pre_min = pp.min, !.pre_max = pp.max,
              !.pre_file = "open", !.pre_reads = s.vin.sizes_in_file[2]]

MghPre(inp, s, mask) ==
    IF ~MghQuant(s) THEN s
    ELSE MghPreDone(s, mgh_scan_for_voxel_range(s.vin, inp, mask))

MghOpen(inp, vol, v, hio, g, mask) ==
    MghPre(inp, MghSetup(inp, vol, v, MghHeader(inp, hio), g), mask)

\* the outcomes of the input_next_slice calls of the pre-pass
MghMasks(s) ==
    IF MghQuant(s)
    THEN [0 .. (s.vin.sizes_in_file[2] - 1) -> {"ok", "read_fail"}]
    ELSE {<<>>}

initialize_mgh_format_input ==
    /\ phase = "new"
    /\ input.format = "mgh"
    /\ \E hio \in MghHeaderOutcomes, g \in Garbage :
        \E mask \in MghMasks(MghSetup(input, volume, vin,
                                      MghHeader(input, hio), 0)) :
          OpenReturns(MghOpen(input, volume, vin, hio, g, mask))

----------------------------------------------------------------------------
(* input_mgh.c: input_more_mgh_format_file *)

MghActive(v) == v.slice_index < v.sizes_in_file[2]

\* lines 648-660: whether value_translation and value_scale come from the
\* voxel range
MghScaling(vol, v) == MghActive(v) /\ vol.data_type # v.file_data_type

\* line 699 and the conversion made by the voxel setter: the write of the
\* sample raw; dz is what the conversion of an infinity or a not-a-number
\* to an integer gives.  Lines 708-714 pass 0 as the fourth index.
MghWrite(i, j, at, q, dz) ==
    [i |-> i, j |-> j, at |-> at, frame |-> 0, val |-> q,
     int |-> IF q.d = 0 THEN dz ELSE TruncQuot(q.n, q.d)]

MghValue(scaling, raw, lo, hi) ==
    IF scaling THEN Quot((raw - lo) * (NUM_BYTE_VALUES - 1), hi - lo)
               ELSE Rat(raw)

\* lines 662-716: the writes of the slice held in the buffer
MghWrites(v, scaling, lo, hi, dz, g) ==
    {MghWrite(i, j,
              ScatterIndex(v.axis_index_from_file, 2, 1, 0,
                           v.slice_index - 1, i, j, g),
              MghValue(scaling,
                       MghSample(v.file_data_type,
                                 v.buffer[i * v.sizes_in_file[0] + j + 1]),
                       lo, hi),
              dz) :
        i \in 0 .. (v.sizes_in_file[1] - 1),
        j \in 0 .. (v.sizes_in_file[0] - 1)}

\* lines 627-660: the slice is read and the locals original_min_voxel /
\* original_max_voxel (lo, hi) set when scaling; g is what they hold
\* otherwise, and what the new voxel storage holds
MghRead(inp, vol, v, oc, g) ==
    [vol |-> IF MghActive(v) /\ ~vol.alloced
             THEN alloc_volume_data(vol, g) ELSE vol,
     r   |-> IF MghActive(v) THEN input_next_slice(v, inp, oc)
             ELSE [vin |-> v, status |-> "NONE"],
     scaling |-> MghScaling(vol, v),
     lo  |-> IF MghScaling(vol, v) THEN vol.voxel_min.n ELSE g,
     hi  |-> IF MghScaling(vol, v) THEN vol.voxel_max.n ELSE g,
     w   |-> {},
     dec |-> <<>>,
     leaked |-> 0]

\* lines 668-717: the slice is scattered when it was read, and the running
\* min_value / max_value of the session follow the values written
MghScatterW(a, w) ==
    [a EXCEPT !.w = w,
              !.dec = [k \in DOMAIN a.r.vin.buffer |->
                          MghSample(a.r.vin.file_data_type, a.r.vin.buffer[k])],
              !.vol = Scatter(@, w),
              !.r.vin.min_value = RatMin(@, {x.val : x \in w}),
              !.r.vin.max_value = RatMax(@, {x.val : x \in w})]

MghScatter(a, dz, g) ==
    IF a.r.status # "OK" THEN a
    ELSE MghScatterW(a, MghWrites(a.r.vin, a.scaling, a.lo, a.hi, dz, g))

\* lines 725-735: the ranges set by the completing call
MghFinish(vol, v, lo, hi) ==
    IF vol.data_type # v.file_data_type
    THEN set_volume_real_range(
             set_volume_voxel_range(vol, v.min_value, v.max_value),
             Rat(lo), Rat(hi))
    ELSE set_volume_voxel_range(vol, v.min_value, v.max_value)

\* lines 720-742: the fraction and the returned flag
MghReturn(a) ==
    [vol  |-> IF a.r.vin.slice_index = a.r.vin.sizes_in_file[2]
              THEN MghFinish(a.vol, a.r.vin, a.lo, a.hi) ELSE a.vol,
     more |-> a.r.vin.slice_index # a.r.vin.sizes_in_file[2],
     set  |-> TRUE,
     num  |-> a.r.vin.slice_index,
     den  |-> a.r.vin.sizes_in_file[2]]

\* lines 632-639: the call when the voxel storage cannot be allocated
MghAllocFails(vol, v) ==
    [vol |-> vol, more |-> FALSE, set |-> FALSE, num |-> 0, den |-> 1]

MghNoRead(vol, v) ==
    [vol |-> vol, r |-> [vin |-> v, status |-> "NONE"], scaling |-> FALSE,
     lo |-> 0, hi |-> 0, w |-> {}, dec |-> <<>>, leaked |-> 0]

MghMore(a) == MoreReturns(a, MghReturn(a))

input_more_mgh_format_file ==
    /\ phase = "open"
    /\ input.format = "mgh"
    /\ obs.ncalls < MaxCalls
    /\ \/ /\ MghActive(vin) /\ ~volume.alloced
          /\ MoreReturns(MghNoRead(volume, vin), MghAllocFails(volume, vin))
       \/ \E oc \in IF MghActive(vin) THEN {"ok", "read_fail"} ELSE {"none"},
             g  \in IF MghScaling(volume, vin) /\ volume.alloced
                    THEN {0} ELSE Garbage,
             dz \in IF MghScaling(volume, vin)
                       /\ volume.voxel_min = volume.voxel_max
                    THEN DivZeroInt ELSE {0} :
           MghMore(MghScatter(MghRead(input, volume, vin, oc, g), dz, g))

----------------------------------------------------------------------------
(* input_free.c: delete_free_format_input; input_mgh.c:                    *)
(* delete_mgh_format_input                                                 *)

\* lines 347-364: the slice buffer is freed (and the slice file list in
\* per-slice mode), the volume file closed otherwise; nothing in the
\* structure records that it was done
FreeDelete(v) ==
    [vin |-> [v EXCEPT !.buffer_live = FALSE,
                       !.volume_file.open =
                           IF v.one_file_per_slice THEN @ ELSE FALSE],
     bad_close |-> ~v.one_file_per_slice /\ ~v.volume_file.open]

\* lines 605-609: the slice buffer is freed and the file closed
MghDelete(v) ==
    [vin |-> [v EXCEPT !.buffer_live = FALSE, !.volume_file.open = FALSE],
     bad_close |-> ~v.volume_file.open]

\* the state after a delete_* call
DeleteReturns(d) ==
    /\ vin' = d.vin
    /\ phase' = "deleted"
    /\ obs' = [NoDecode(obs) EXCEPT !.ndeletes = @ + 1,
                                    !.bad_close = d.bad_close]
    /\ UNCHANGED <<input, volume, ret, peer>>

delete_free_format_input ==
    /\ phase \in {"open", "deleted"}
    /\ input.format = "free"
    /\ obs.ndeletes < MaxDeletes
    /\ DeleteReturns(FreeDelete(vin))

delete_mgh_format_input ==
    /\ phase \in {"open", "deleted"}
    /\ input.format = "mgh"
    /\ obs.ndeletes < MaxDeletes
    /\ DeleteReturns(MghDelete(vin))

----------------------------------------------------------------------------
(* The sessions explored *)

Sides == 1 .. MaxSide

Seq3(a, b, c) == [i \in Axes |-> CASE i = 0 -> a [] i = 1 -> b [] i = 2 -> c]

Seq4(a, b, c, d) ==
    [i \in 0..3 |-> CASE i = 0 -> a [] i = 1 -> b [] i = 2 -> c [] i = 3 -> d]

\* a free format file: monolithic when nslices > 0 is announced in the
\* header (perslice = FALSE), a list of nslices slice files otherwise
FreeInput(bpv, perslice, nslices, rows, cols, seps, trans, letters, pattern) ==
    [format |-> "free", bpv |-> bpv, version |-> 0, type |-> 0,
     sizes |-> Seq4(IF perslice THEN 0 ELSE nslices, rows, cols, 1),
     seps |-> seps, trans |-> trans, letters |-> letters,
     nfiles |-> IF perslice THEN nslices ELSE 0,
     byte_offset |-> 0, goodRAS |-> FALSE,
     lines |-> HeaderLines, short_header |-> FALSE,
     spacing |-> Seq3(1, 1, 1),
     dircos |-> [a \in 0..3 |-> Seq3(0, 0, 0)],
     pattern |-> pattern]

FreePatterns == {"ramp", "const", "minmax"}

FreeInputs ==
    {FreeInput(bpv, ps, n, r, c, Seq3(1, 1, 1), Seq3(0, 0, 0), l, p) :
        bpv \in {1, 2}, ps \in BOOLEAN, n \in 0..MaxSlices,
        r \in Sides, c \in Sides,
        l \in {Seq3("x", "y", "z"), Seq3("y", "x", "z")},
        p \in FreePatterns}

\* an MGH file; rows[0..2] are the direction rows of the three file axes
MghInput(version, type, goodRAS, rows, w, h, nslices, pattern) ==
    [format |-> "mgh", bpv |-> 0, version |-> version, type |-> type,
     sizes |-> Seq4(w, h, nslices, 1),
     seps |-> Seq3(1, 1, 1), trans |-> Seq3(0, 0, 0),
     letters |-> Seq3("x", "y", "z"),
     nfiles |-> 0, byte_offset |-> 0, goodRAS |-> goodRAS,
     lines |-> HeaderLines, short_header |-> FALSE,
     spacing |-> Seq3(2, 2, 2),
     dircos |-> Seq4(rows[0], rows[1], rows[2], Seq3(5, 5, 5)),
     pattern |-> pattern]

\* direction rows: the identity, a permutation written with negative and
\* oblique components, and rows where two file axes are dominated by X
MghRows ==
    {Seq3(Seq3(1, 0, 0), Seq3(0, 1, 0), Seq3(0, 0, 1)),
     Seq3(Seq3(0, -3, 1), Seq3(0, 1, 3), Seq3(-3, 0, 1)),
     Seq3(Seq3(1, 0, 0), Seq3(1, 0, 0), Seq3(0, 0, 1))}

MghPatterns(type) ==
    IF type = MGH_TYPE_SHORT THEN {"ramp", "const", "minmax", "neg"}
                             ELSE {"ramp", "const", "minmax"}

MghInputsOf(t) ==
    {MghInput(1, t, TRUE, rows, w, h, n, p) :
        rows \in MghRows, w \in Sides, h \in Sides, n \in 0..MaxSlices,
        p \in MghPatterns(t)}

MghInputs ==
    UNION {MghInputsOf(t) : t \in {MGH_TYPE_UCHAR, MGH_TYPE_INT,
                                   MGH_TYPE_FLOAT, MGH_TYPE_SHORT}}

\* headers: free format files with flipped axes under every kind of axis
\* order, with letters in upper case, with a letter that is no axis, with
\* an axis named twice and with an unknown sample size; MGH files of an
\* unknown version or type, and one whose good-RAS flag is off
FlipSeps == {Seq3(-2, 1, 1), Seq3(1, -2, 1), Seq3(1, 1, -3)}

FlipLetters ==
    {Seq3("x", "y", "z"), Seq3("y", "x", "z"), Seq3("z", "x", "y"),
     Seq3("X", "Z", "Y")}

\* direction rows with components of equal magnitude: |x| = |y| > |z|,
\* |y| = |z| > |x|, and |x| = |z| > |y|
TieRows == Seq3(Seq3(2, -2, 0), Seq3(0, 2, -2), Seq3(-1, 0, 1))

\* free format volume files whose payload begins after one sample of
\* padding
OffsetInputs ==
    {[FreeInput(bpv, FALSE, 2, 1, 2, Seq3(1, 1, 1), Seq3(0, 0, 0),
                Seq3("x", "y", "z"), "ramp") EXCEPT !.byte_offset = 1] :
        bpv \in {1, 2}}

\* free format headers that end early, volume file and slice files alike
TruncatedInputs ==
    {[FreeInput(1, ps, 1, 1, 2, Seq3(1, 1, 1), Seq3(0, 0, 0),
                Seq3("x", "y", "z"), "ramp") EXCEPT !.lines = k] :
        ps \in BOOLEAN, k \in 0 .. (HeaderLines - 1)}
    \ {[FreeInput(1, TRUE, 1, 1, 2, Seq3(1, 1, 1), Seq3(0, 0, 0),
                   Seq3("x", "y", "z"), "ramp") EXCEPT
             !.lines = HeaderLines - 1]}

\* free format headers of every sample size from 0 to 4, with letters of
\* either case
SizeInputs ==
    {FreeInput(bpv, ps, 1, 1, 2, Seq3(1, 1, 1), Seq3(0, 0, 0), l, "ramp") :
        bpv \in 0..4, ps \in BOOLEAN,
        l \in {Seq3("X", "Y", "Z"), Seq3("Z", "y", "X"), Seq3("y", "Q", "x")}}

\* MGH headers of every type code from 0 to 7 under the versions 0, 1 and
\* 2, and headers that end early
IdentityRows == Seq3(Seq3(1, 0, 0), Seq3(0, 1, 0), Seq3(0, 0, 1))

TypeInputs ==
    {MghInput(ver, t, TRUE, IdentityRows, 1, 2, 1, "ramp") :
        ver \in 0..2, t \in 0..7}
    \cup {[MghInput(1, t, TRUE, IdentityRows, 1, 2, 1, "ramp") EXCEPT
              !.short_header = TRUE] : t \in {MGH_TYPE_UCHAR, 2}}

\* the direction rows of a volume turned by 45 degrees about its second
\* axis: the first and the third row have two components of equal magnitude
ObliqueRows == Seq3(Seq3(1, 0, -1), Seq3(0, 1, 0), Seq3(1, 0, 1))

ObliqueInputs ==
    {MghInput(1, MGH_TYPE_UCHAR, TRUE, ObliqueRows, 2, 1, 2, "ramp")}

\* an MGH file of four dimensions: two frames of two slices of 2 x 2 samples
FrameInputs ==
    {[MghInput(1, MGH_TYPE_UCHAR, TRUE, IdentityRows, 2, 2, 2, "const")
         EXCEPT !.sizes[3] = 2]}

HeaderInputs ==
    {FreeInput(2, FALSE, 2, 3, 4, seps, Seq3(10, 20, 30), l, "ramp") :
        seps \in FlipSeps, l \in FlipLetters}
    \cup {FreeInput(bpv, FALSE, 1, 1, 2, Seq3(1, 1, 1), Seq3(0, 0, 0), l, "ramp") :
            bpv \in {2, 3},
            l \in {Seq3("x", "q", "z"), Seq3("x", "x", "z"), Seq3("z", "y", "x")}}
    \cup {MghInput(ver, t, TRUE, rows, 1, 2, 1, "ramp") :
            ver \in {1, 2}, t \in {MGH_TYPE_UCHAR, 2}, rows \in MghRows}
    \cup {MghInput(1, MGH_TYPE_UCHAR, FALSE, rows, 1, 2, 1, "ramp") :
            rows \in MghRows}
    \cup OffsetInputs
    \cup {MghInput(1, MGH_TYPE_UCHAR, TRUE, TieRows, 1, 2, 1, "ramp")}
    \cup TruncatedInputs \cup SizeInputs \cup TypeInputs \cup ObliqueInputs
    \cup FrameInputs

Inputs == FreeInputs \cup MghInputs \cup HeaderInputs

VolumeTypes == {"NO_DATA_TYPE", "UNSIGNED_BYTE", "UNSIGNED_SHORT"}

Volume0(type) ==
    [data_type |-> type,
     spatial_axes |-> [c \in Axes |-> c],
     sizes |-> [c \in Axes |-> 0],
     separations |-> [c \in Axes |-> 1],
     trans |-> [c \in Axes |-> 0],
     voxel_min |-> Rat(0), voxel_max |-> Rat(0),
     real_min |-> Rat(0), real_max |-> Rat(0), real_set |-> FALSE,
     frames |-> 1,
     alloced |-> FALSE, data |-> <<>>]

Vin0 ==
    [file_data_type |-> "NO_DATA_TYPE",
     sizes_in_file |-> [a \in 0..3 |-> 0],
     axis_index_from_file |-> [a \in Axes |-> 0],
     slice_index |-> 0,
     one_file_per_slice |-> FALSE,
     buffer |-> <<>>,
     buffer_live |-> FALSE,
     volume_file |-> [open |-> FALSE, pos |-> 0],
     min_value |-> Rat(0), max_value |-> Rat(0)]

Obs0 ==
    [ncalls |-> 0, status |-> "NONE", slice |-> -1, scaling |-> FALSE,
     translation |-> Rat(0), scale |-> 0, divzero |-> FALSE, written |-> {},
     oob |-> FALSE, alloc_failed |-> FALSE,
     pre_quant |-> FALSE, pre_ok |-> TRUE,
     pre_min |-> Rat(0), pre_max |-> Rat(0),
     pre_file |-> "none", pre_reads |-> 0,
     decoded |-> <<>>, clean |-> TRUE, leaked |-> 0,
     ndeletes |-> 0, bad_close |-> FALSE, hdr_file |-> "none",
     hdr |-> [ok |-> FALSE], populated |-> {}]

\* no second session
NoPeer == [phase |-> "none"]

Init ==
    /\ input \in Inputs
    /\ volume \in {Volume0(t) : t \in VolumeTypes}
    /\ vin = Vin0
    /\ phase = "new"
    /\ ret = [more |-> TRUE, set |-> FALSE, num |-> 0, den |-> 1]
    /\ obs = Obs0
    /\ peer = NoPeer

Next ==
    \/ initialize_free_format_input
    \/ input_more_free_format_file
    \/ initialize_mgh_format_input
    \/ input_more_mgh_format_file
    \/ delete_free_format_input
    \/ delete_mgh_format_input

Spec == Init /\ [][Next]_vars

----------------------------------------------------------------------------
(* Two sessions of one process, each with its own file, Volume and         *)
(* volume_input_struct                                                     *)

\* the session the next call is made on
Session ==
    [input |-> input, volume |-> volume, vin |-> vin, phase |-> phase,
     ret |-> ret, obs |-> obs]

\* the caller turns to its other session
Switch ==
    /\ peer.phase # "none"
    /\ input' = peer.input
    /\ volume' = peer.volume
    /\ vin' = peer.vin
    /\ phase' = peer.phase
    /\ ret' = peer.ret
    /\ obs' = peer.obs
    /\ peer' = Session

\* files of two slices of two samples each, one per format and file mode
PairInputs ==
    {FreeInput(1, FALSE, 2, 1, 2, Seq3(1, 1, 1), Seq3(0, 0, 0),
               Seq3("x", "y", "z"), "ramp"),
     FreeInput(2, TRUE, 2, 1, 2, Seq3(1, 1, 1), Seq3(0, 0, 0),
               Seq3("y", "x", "z"), "minmax"),
     MghInput(1, MGH_TYPE_UCHAR, TRUE,
              Seq3(Seq3(1, 0, 0), Seq3(0, 1, 0), Seq3(0, 0, 1)),
              2, 1, 2, "minmax")}

Session0(inp, type) ==
    [input |-> inp, volume |-> Volume0(type), vin |-> Vin0, phase |-> "new",
     ret |-> [more |-> TRUE, set |-> FALSE, num |-> 0, den |-> 1],
     obs |-> Obs0]

InitPair ==
    /\ input \in PairInputs
    /\ volume = Volume0("NO_DATA_TYPE")
    /\ vin = Vin0
    /\ phase = "new"
    /\ ret = [more |-> TRUE, set |-> FALSE, num |-> 0, den |-> 1]
    /\ obs = Obs0
    /\ peer \in {Session0(inp, "NO_DATA_TYPE") : inp \in PairInputs}

NextPair ==
    \/ initialize_free_format_input
    \/ input_more_free_format_file
    \/ initialize_mgh_format_input
    \/ input_more_mgh_format_file
    \/ delete_free_format_input
    \/ delete_mgh_format_input
    \/ Switch

SpecPair == InitPair /\ [][NextPair]_vars

----------------------------------------------------------------------------
(* Properties *)

\* total_slices and the cursor of the session
TotalSlices(v) ==
    IF input.format = "free" THEN v.sizes_in_file[0] ELSE v.sizes_in_file[2]

\* the step is an input_more_* call
Called == obs'.ncalls = obs.ncalls + 1

\* the session completed: the last call returned FALSE with the cursor at
\* total_slices
Completed ==
    /\ phase = "open"
    /\ obs.ncalls > 0
    /\ ret.set /\ ~ret.more
    /\ vin.slice_index = TotalSlices(vin)

\* the extrema of the payload of the file
PayloadValues(inp) ==
    {PayloadAt(inp, k) :
        k \in 0 .. (InputSlices(inp) * InputSliceLen(inp) - 1)}

\* the file axis whose letter names the canonical axis c
FileAxisOf(inp, c) == CHOOSE a \in Axes : LetterAxis(inp.letters[a]) = c

\* the translation the flip rule gives the canonical axis c
FlippedTrans(inp, c) ==
    IF inp.seps[FileAxisOf(inp, c)] < 0
    THEN inp.trans[c] + Abs(inp.seps[FileAxisOf(inp, c)])
                            * (inp.sizes[FileAxisOf(inp, c)] - 1)
    ELSE inp.trans[c]

\* C1: on a session with at least one slice, the fraction reported by
\* successive input_more_* calls never decreases, and the call on which the
\* returned flag becomes FALSE reports a fraction of exactly 1.0.
C1_FractionMonotoneEndsAtOne ==
    [][(Called /\ TotalSlices(vin') > 0) =>
          /\ (ret.set /\ ret'.set /\ ret.den > 0 /\ ret'.den > 0) =>
                 ret.num * ret'.den <= ret'.num * ret.den
          /\ (ret.more /\ ~ret'.more) =>
                 (ret'.set /\ ret'.den > 0 /\ ret'.num = ret'.den)]_vars

\* C2: a call whose slice read fails leaves the cursor where it was.
C2_FailedReadKeepsCursor ==
    [][(Called /\ obs'.status = "ERROR") =>
          vin'.slice_index = vin.slice_index]_vars

\* C3: a call whose slice read fails does not return the flag and the
\* fraction that a successful read of the same slice returns.
C3_FailureIsSurfaced ==
    [][(Called /\ obs'.status = "ERROR") =>
          ~ /\ ret'.set
            /\ ret'.more = (vin.slice_index + 1 # TotalSlices(vin))
            /\ ret'.den # 0
            /\ ret'.num * TotalSlices(vin) = (vin.slice_index + 1) * ret'.den]_vars

\* C4: on a session with at least one slice, a call made after completion
\* leaves the cursor, every voxel, the voxel range and the real range as the
\* completing call left them.
C4_CallAfterCompletionChangesNothing ==
    [][(Called /\ Completed /\ TotalSlices(vin) > 0) =>
          /\ vin'.slice_index = vin.slice_index
          /\ volume'.data = volume.data
          /\ volume'.voxel_min = volume.voxel_min
          /\ volume'.voxel_max = volume.voxel_max
          /\ volume'.real_min = volume.real_min
          /\ volume'.real_max = volume.real_max]_vars

\* C5: after a successful open the three file axes are assigned three
\* different canonical axes.
C5_AxisAssignmentIsBijection ==
    phase = "open" =>
        Cardinality({vin.axis_index_from_file[a] : a \in Axes}) = N_DIMENSIONS

\* C6: after a successful free format open of a header that declares a
\* negative separation, every canonical axis has the separation of its file
\* axis, and its translation is the header's, plus |separation| * (size - 1)
\* when the separation is negative.
C6_FlipTranslation ==
    (phase = "open" /\ input.format = "free"
        /\ \E a \in Axes : input.seps[a] < 0) =>
        \A c \in Axes :
            /\ volume.separations[c] = input.seps[FileAxisOf(input, c)]
            /\ volume.trans[c] = FlippedTrans(input, c)

\* C7: when a call rescales, every value it hands to the voxel setter lies
\* in [0, 255].
C7_QuantizedValuesInRange ==
    obs.scaling =>
        \A x \in obs.written :
            /\ x.val.d > 0
            /\ 0 <= x.val.n
            /\ x.val.n <= (NUM_BYTE_VALUES - 1) * x.val.d

\* C8: after an open whose pre-pass read every slice of a non-empty payload
\* without an error, the voxel range found is the minimum and the maximum of
\* the payload.
C8_PrePassFindsExtrema ==
    (phase = "open" /\ obs.pre_quant /\ obs.pre_ok
        /\ PayloadValues(input) # {}) =>
        /\ obs.pre_min = Rat(SetMin(PayloadValues(input)))
        /\ obs.pre_max = Rat(SetMax(PayloadValues(input)))

\* C9: a call that rescales with a zero scale evaluates no division by zero
\* and hands only the value 0 to the voxel setter.
C9_ZeroScaleWritesZero ==
    (obs.scaling /\ obs.scale = 0 /\ obs.written # {}) =>
        /\ ~obs.divzero
        /\ \A x \in obs.written : x.val = Rat(0)

\* C10: every call that rescales uses the translation and the scale given
\* by the extrema the pre-pass of the open call found: translation = minimum
\* and scale = (maximum - minimum) / 255.
C10_ParametersFixedByPrePass ==
    obs.scaling =>
        /\ obs.pre_quant
        /\ obs.translation = obs.pre_min
        /\ obs.pre_max = Rat(obs.pre_min.n + obs.scale)

\* a completing call, not the first of its session, that rescaled a slice
\* with a non-zero scale
C10_Witness ==
    /\ obs.scaling
    /\ obs.ncalls >= 2
    /\ obs.status = "OK"
    /\ obs.written # {}
    /\ obs.scale > 0
    /\ ~ret.more

----------------------------------------------------------------------------
(* Scatter, sample decoding, close *)

\* the file axis that is outermost (one slice per index) and the one that
\* varies fastest within a slice
OuterAxis == IF input.format = "free" THEN 0 ELSE 2
FastAxis  == IF input.format = "free" THEN 2 ELSE 0

NRow  == vin.sizes_in_file[1]
NFast == vin.sizes_in_file[FastAxis]

\* the axis assignment of the session is a permutation
IsPermutation ==
    Cardinality({vin.axis_index_from_file[a] : a \in Axes}) = N_DIMENSIONS

\* the canonical coordinates the axis permutation gives the file
\* coordinates (slice s, row i, fastest index j)
VoxelOf(s, i, j) ==
    [c \in Axes |->
        IF vin.axis_index_from_file[OuterAxis] = c THEN s
        ELSE IF vin.axis_index_from_file[1] = c THEN i
        ELSE j]

\* C11: after a complete decode without quantization in which no call
\* failed, under an axis assignment that is a permutation, the voxel at the
\* permuted coordinates of (slice s, row i, fastest index j) holds the
\* payload sample of linear index s * n_row * n_fast + i * n_fast + j.
C11_ScatterFollowsPermutation ==
    (Completed /\ obs.clean /\ IsPermutation /\ TotalSlices(vin) > 0
        /\ volume.data_type = vin.file_data_type) =>
        \A s \in 0 .. (TotalSlices(vin) - 1), i \in 0 .. (NRow - 1),
           j \in 0 .. (NFast - 1) :
            /\ VoxelOf(s, i, j) \in DOMAIN volume.data
            /\ volume.data[VoxelOf(s, i, j)] =
                   PayloadAt(input, s * NRow * NFast + i * NFast + j)

\* the samples of slice s as they were encoded, and as the file stores them
SlicePayload(s) ==
    [k \in 1 .. (NRow * NFast) |-> PayloadAt(input, s * NRow * NFast + k - 1)]

SliceStored(s) ==
    [k \in 1 .. (NRow * NFast) |-> Encode(InputType(input), SlicePayload(s)[k])]

\* C12: a call that read the stored bytes of a slice decodes from them the
\* numeric sequence that was encoded, negative samples of the signed types
\* included.
C12_DecodeRoundTrip ==
    (phase = "open" /\ obs.ncalls > 0 /\ obs.status = "OK"
        /\ vin.buffer = SliceStored(obs.slice)) =>
        obs.decoded = SlicePayload(obs.slice)

\* C13: a deleted session holds neither its slice buffer nor an open file,
\* and a delete_* call on a session already deleted closes no file again.
C13_CloseReleasesAndIsIdempotent ==
    phase = "deleted" =>
        /\ ~vin.buffer_live
        /\ ~vin.volume_file.open
        /\ obs.ndeletes >= 2 => ~obs.bad_close

\* C14: an input_more_* call returns FALSE exactly when it leaves the cursor
\* at total_slices, and TRUE in every other case.
C14_DoneIffCursorAtTotal ==
    [][Called =>
          (ret'.more <=> vin'.slice_index # TotalSlices(vin'))]_vars

\* C15: the cursor always lies in 0 .. total_slices; it is 0 when a
\* successful open returns; an input_more_* call never decreases it and
\* increases it by at most 1.
C15_CursorBounded ==
    /\ [](0 <= vin.slice_index /\ vin.slice_index <= TotalSlices(vin))
    /\ [][/\ (phase = "new" /\ phase' = "open") => vin'.slice_index = 0
          /\ Called => /\ vin.slice_index <= vin'.slice_index
                       /\ vin'.slice_index <= vin.slice_index + 1]_vars

\* a session of two slices brought to its end although one call failed
C15_Witness ==
    /\ phase = "open"
    /\ TotalSlices(vin) = 2
    /\ vin.slice_index = 2
    /\ obs.ncalls >= 3
    /\ ~obs.clean

\* the session as the step leaves it
SessionAfter ==
    [input |-> input', volume |-> volume', vin |-> vin', phase |-> phase',
     ret |-> ret', obs |-> obs']

\* C16: with two sessions in one process, under every interleaving of
\* their calls, a call on one session leaves the file, the Volume, the
\* cursor and the returned values of the other as they were; and each
\* session reports its own cursor over its own total and, once decoded
\* without a failure, holds the payload of its own file.
C16_SessionsIndependent ==
    /\ [][peer' # peer => (peer' = Session /\ SessionAfter = peer)]_vars
    /\ []((obs.ncalls > 0 /\ ret.set /\ ~obs.alloc_failed) =>
              (ret.num = vin.slice_index /\ ret.den = TotalSlices(vin)))
    /\ []((Completed /\ obs.clean /\ IsPermutation
              /\ volume.data_type = vin.file_data_type) =>
              \A s \in 0 .. (TotalSlices(vin) - 1), i \in 0 .. (NRow - 1),
                 j \in 0 .. (NFast - 1) :
                  volume.data[VoxelOf(s, i, j)] =
                      PayloadAt(input, s * NRow * NFast + i * NFast + j))

\* one session is complete while the other, on a file of the other format,
\* is open with one of its two slices decoded
C16_Witness ==
    /\ Completed /\ obs.clean /\ TotalSlices(vin) = 2
    /\ peer.phase = "open"
    /\ peer.input.format # input.format
    /\ peer.obs.ncalls = 1 /\ peer.obs.clean
    /\ peer.vin.slice_index = 1
    /\ peer.ret.more

\* C17: when an input_more_* call returns, every slice file it opened is
\* closed.
C17_SliceFilesClosed ==
    obs.leaked = 0

\* the session reads one volume file that holds every slice
Monolithic == input.format = "mgh" \/ ~vin.one_file_per_slice

\* C18: while a session on a monolithic file is open, its file is open and
\* stands at byte_offset + cursor * slice length, whatever calls were made.
C18_MonolithicPosition ==
    (phase = "open" /\ Monolithic) =>
        /\ vin.volume_file.open
        /\ vin.volume_file.pos =
               input.byte_offset + vin.slice_index * (NRow * NFast)

\* the reals a and b are the same number
RatEq(a, b) ==
    IF a.d = 0 \/ b.d = 0 THEN a = b /\ ~IsNaN(a)
    ELSE a.n * b.d = b.n * a.d

\* the step is the input_more_* call on which the cursor reaches
\* total_slices
ReachesTotal ==
    /\ Called
    /\ vin.slice_index < TotalSlices(vin)
    /\ vin'.slice_index = TotalSlices(vin')

\* C19: the call on which the cursor reaches total_slices sets the voxel
\* range of the volume to the minimum and the maximum of the values the
\* volume stores at that moment and, when the volume's type differs from
\* the file's, the real range to the extrema found by the pre-pass.
C19_FinalRangeFromVolume ==
    [][(ReachesTotal /\ StoredValues(volume') # {}) =>
          /\ RatEq(volume'.voxel_min, Rat(SetMin(StoredValues(volume'))))
          /\ RatEq(volume'.voxel_max, Rat(SetMax(StoredValues(volume'))))
          /\ volume'.data_type # vin'.file_data_type =>
                 /\ volume'.real_set
                 /\ RatEq(volume'.real_min, obs'.pre_min)
                 /\ RatEq(volume'.real_max, obs'.pre_max)]_vars

\* the canonical axis of largest magnitude in a direction row, X before Y
\* before Z among equals
DominantAxis(row) ==
    IF Abs(row[X]) >= Abs(row[Y]) /\ Abs(row[X]) >= Abs(row[Z]) THEN X
    ELSE IF Abs(row[Y]) >= Abs(row[Z]) THEN Y
    ELSE Z

\* C20: after a successful MGH open every file axis is assigned the
\* canonical axis whose direction component has the largest magnitude, X
\* before Y before Z among components of equal magnitude.
C20_DominantAxisAssigned ==
    (phase = "open" /\ input.format = "mgh") =>
        \A a \in Axes :
            vin.axis_index_from_file[a] =
                DominantAxis(mgh_header_from_file(input).dircos[a])

----------------------------------------------------------------------------
(* Header checks *)

\* the step is an open call
Opened == phase = "new" /\ phase' # "new"

\* the sample type the fixed-binary format gives each type code it supports
SupportedCode ==
    [c \in {0, 1, 3, 4} |->
        CASE c = 0 -> "UNSIGNED_BYTE" [] c = 1 -> "SIGNED_INT"
          [] c = 3 -> "FLOAT"         [] c = 4 -> "SIGNED_SHORT"]

\* C21: an MGH open call succeeds only on a header of version 1 whose type
\* code is 0, 1, 3 or 4, and then records the sample type u8, i32, f32 or
\* i16 of that code; on every other version or type code it fails, leaves
\* no file open and leaves the volume_input_struct and the Volume as they
\* were.
C21_VersionAndTypeChecked ==
    [][(Opened /\ input.format = "mgh") =>
          IF input.version = 1 /\ input.type \in DOMAIN SupportedCode
          THEN phase' = "open" =>
                   vin'.file_data_type = SupportedCode[input.type]
          ELSE /\ phase' = "failed"
               /\ obs'.hdr_file \in {"none", "closed"}
               /\ vin' = vin
               /\ volume' = volume]_vars

\* an MGH open call failed on a complete header of version 1 whose type
\* code is 5, after the file was opened
C21_Witness ==
    /\ phase = "failed"
    /\ input.format = "mgh"
    /\ ~input.short_header
    /\ input.version = 1
    /\ input.type = 5
    /\ obs.hdr_file = "closed"

\* the canonical axis an axis letter names, in either case
CanonicalAxis ==
    [ch \in {"x", "y", "z", "X", "Y", "Z"} |->
        CASE ch \in {"x", "X"} -> 0 [] ch \in {"y", "Y"} -> 1
          [] ch \in {"z", "Z"} -> 2]

\* the free format header holds every token and every field is valid: the
\* sample size is 1 or 2, the three letters are axis letters, and the file
\* goes on to the name of the volume file unless it lists slice files
ValidFreeHeader(inp) ==
    /\ inp.bpv \in {1, 2}
    /\ \A a \in Axes : inp.letters[a] \in DOMAIN CanonicalAxis
    /\ inp.lines >= HeaderLines - 1
    /\ inp.sizes[0] > 0 => inp.lines >= HeaderLines

DefaultDircos ==
    [j \in 0..3 |->
        [i \in Axes |->
            CASE j = 0 /\ i = 0 -> -1
              [] j = 1 /\ i = 2 -> -1
              [] j = 2 /\ i = 1 -> 1
              [] OTHER          -> 0]]

\* C23: the header an MGH open call parsed from a file whose good-RAS flag
\* is off has the spacing 1 on every axis and the default direction rows,
\* centre row included, whatever the file stores.
C23_DefaultGeometry ==
    (input.format = "mgh" /\ phase # "new" /\ obs.hdr.ok
        /\ ~input.goodRAS) =>
        /\ obs.hdr.spacing = [i \in Axes |-> 1]
        /\ obs.hdr.dircos = DefaultDircos

\* an MGH file whose good-RAS flag is off was opened, and its spacing and
\* its direction rows on disk are not the defaults
C23_Witness ==
    /\ input.format = "mgh"
    /\ phase = "open"
    /\ obs.hdr.ok
    /\ ~input.goodRAS
    /\ \A i \in Axes : input.spacing[i] # 1
    /\ \A j \in 0..3 : input.dircos[j] # DefaultDircos[j]

----------------------------------------------------------------------------
(* Decode: rounding, the pre-pass, the voxels written *)

\* q is an integer nearest to the quotient a / b, b > 0 (either neighbour
\* when the quotient lies half way)
IsNearest(q, a, b) == Abs(2 * q * b - 2 * a) <= b

\* the sample at row i and fastest index j of the slice the last call
\* decoded
DecodedAt(i, j) == obs.decoded[i * NFast + j + 1]

\* C24: a call that rescales with a non-zero scale stores, for every sample
\* v of its slice between the two extrema, the quotient
\* (v - translation) / scale rounded to a nearest integer.
C24_QuantizationRounds ==
    (phase = "open" /\ obs.scaling /\ obs.status = "OK" /\ obs.scale > 0
        /\ IsPermutation) =>
        \A i \in 0 .. (NRow - 1), j \in 0 .. (NFast - 1) :
            (/\ VoxelOf(obs.slice, i, j) \in DOMAIN volume.data
             /\ obs.translation.n <= DecodedAt(i, j)
             /\ DecodedAt(i, j) <= obs.translation.n + obs.scale) =>
                IsNearest(volume.data[VoxelOf(obs.slice, i, j)],
                          (DecodedAt(i, j) - obs.translation.n)
                              * (NUM_BYTE_VALUES - 1),
                          obs.scale)

\* C25: an open call that runs the pre-pass and succeeds writes no voxel,
\* returns with the cursor at 0 and, on a monolithic file, with the file
\* open at the start of the payload; the first input_more_* call that then
\* reads a slice reads the stored samples of slice 0.
C25_PrePassRewinds ==
    /\ [][(Opened /\ phase' = "open" /\ obs'.pre_quant) =>
              /\ volume'.data = volume.data
              /\ vin'.slice_index = 0
              /\ (input.format = "mgh" \/ ~vin'.one_file_per_slice) =>
                     /\ vin'.volume_file.open
                     /\ vin'.volume_file.pos = input.byte_offset]_vars
    /\ []((phase = "open" /\ obs.pre_quant /\ obs.ncalls = 1
              /\ obs.status = "OK") =>
              /\ obs.slice = 0
              /\ vin.buffer = SliceStored(0))

\* C26: an input_more_* call hands to the voxel setter only coordinates
\* whose component along the canonical axis of the outermost file axis is
\* the index of the slice the call read, and leaves every other voxel as
\* it was; a call whose slice read failed writes no voxel.
C26_OnlyTheSliceIsWritten ==
    [][Called =>
          /\ \A x \in obs'.written :
                 x.at[vin.axis_index_from_file[OuterAxis]] = obs'.slice
          /\ volume.alloced =>
                 \A c \in DOMAIN volume.data :
                     volume'.data[c] # volume.data[c] =>
                         c[vin.axis_index_from_file[OuterAxis]] = obs'.slice
          /\ obs'.status # "OK" =>
                 /\ obs'.written = {}
                 /\ volume.alloced => volume'.data = volume.data]_vars

\* every voxel of the volume, under every index of its fourth dimension
AllVoxels ==
    {[at |-> c, frame |-> f] :
        c \in Coords(volume.sizes), f \in 0 .. (volume.frames - 1)}

\* C27: when an input_more_* call returns FALSE for the first time, every
\* voxel of the volume, under every index of the fourth dimension, was
\* written by a call of the session that read its slice.
C27_CompleteMeansPopulated ==
    [][(Called /\ ret.more /\ ~ret'.more) =>
          \A v \in AllVoxels' : v \in obs'.populated]_vars

----------------------------------------------------------------------------
(* Termination, the fraction, the header file *)

C29_FractionDefined ==
    [][Called =>
          /\ ret'.set
          /\ ret'.den > 0
          /\ 0 <= ret'.num /\ ret'.num <= ret'.den
          /\ ret'.num * TotalSlices(vin') = vin'.slice_index * ret'.den]_vars

\* C30: when an initialize_* call fails after it opened the header file,
\* that file was closed before the call returned.
C30_FailedOpenClosesHeader ==
    [][(Opened /\ phase' = "failed") => obs'.hdr_file # "open"]_vars

\* C31: when the free-format open call runs the pre-pass on a volume file
\* that it could not open or could not position, it returns an error and
\* leaves the voxel range of the volume as it was, and it makes no slice
\* read on a volume file that was not opened.
C31_PrePassNeedsTheFile ==
    [][(Opened /\ obs'.pre_file \in {"unopened", "unpositioned"}) =>
          /\ phase' = "failed"
          /\ volume'.voxel_min = volume.voxel_min
          /\ volume'.voxel_max = volume.voxel_max
          /\ obs'.pre_file = "unopened" => obs'.pre_reads = 0]_vars

====
